---- MODULE Spec2Model ----
(***************************************************************************)
(* A model of the Reddit crawler of src/data_download.py: construction of  *)
(* RedditLoader (token exchange and advisory verification), the two batch  *)
(* fetch operations, the crawl loop of get_all_data and make_dataframe.    *)
(* The upstream REST API is the environment: every response is drawn from  *)
(* a small set, and every request the code issues is logged.               *)
(* The web application of src/main.py, with the ChatBot of src/chat.py, is *)
(* modelled beside it: its two globals and its request handlers, one step  *)
(* per access to shared state.                                             *)
(***************************************************************************)
EXTENDS Integers, Sequences, FiniteSets, TLC

(* ------------------------------ bounds -------------------------------- *)
\* Most children in one listing response.
MaxPage == 2
\* Most comment items in one comment-tree response.
MaxComments == 2
\* Most records the accumulator holds while the model still stores them all.
MaxData == 4
\* Most HTTP requests the model logs (the two of the constructor included).
MaxRequests == 7
\* Most requests the web application serves.
MaxServed == 3

(* ------------------------- values of the model ------------------------ *)
\* Python's None (the initial cursor, the absent 'before' parameter).
None == "None"
\* No exception has reached the caller.
NoException == "none"
\* No DataFrame has been returned.
NoTable == << >>
\* No batch fetch has started.
NoFrame == << >>
\* No response has been received.
NoResponse == << >>
\* No second run of get_all_data is followed.
NoRun == << >>

\* The children a listing response can carry: data.name, data.title,
\* data.selftext, data.id of each child.
Posts ==
    { [name |-> "t3_a", title |-> "A", selftext |-> "text a", id |-> "a"],
      [name |-> "t3_b", title |-> "B", selftext |-> "",       id |-> "b"] }

\* The children a comment tree can carry: a comment with a body, or a
\* "load more" placeholder without one.
CommentItems ==
    { [kind |-> "t1", body |-> "c1"],
      [kind |-> "more"] }

\* The same with two comments that differ, for a batch fetch called by
\* itself.
BatchCommentItems ==
    CommentItems \cup { [kind |-> "t1", body |-> "c2"] }

\* Sequences over S of length at most n.
SeqsUpTo(S, n) == UNION { [1..k -> S] : k \in 0..n }

\* An upstream response: ok = FALSE stands for any HTTP or parse failure
\* (requests.get or res.json() raises, or the JSON lacks the expected keys).
ErrorResponse == [ok |-> FALSE, children |-> << >>]
ListingResponses ==
    { [ok |-> TRUE, children |-> c] : c \in SeqsUpTo(Posts, MaxPage) }
    \cup {ErrorResponse}
CommentResponses ==
    { [ok |-> TRUE, children |-> c] : c \in SeqsUpTo(CommentItems, MaxComments) }
    \cup {ErrorResponse}
BatchCommentResponses ==
    { [ok |-> TRUE, children |-> c] :
          c \in SeqsUpTo(BatchCommentItems, MaxComments) }
    \cup {ErrorResponse}

\* The token-exchange response: its JSON has an access_token or has none;
\* ok = FALSE stands for a request that raised.
TokenResponses ==
    { [ok |-> TRUE, json |-> [access_token |-> "tok1"]],
      [ok |-> TRUE, json |-> [access_token |-> "tok2"]],
      [ok |-> TRUE, json |-> [error |-> "invalid_grant"]],
      [ok |-> FALSE, json |-> [error |-> "unreachable"]] }
\* The verification response: its status code; ok = FALSE as above.
VerifyResponses ==
    { [ok |-> TRUE, status_code |-> 200],
      [ok |-> TRUE, status_code |-> 401],
      [ok |-> FALSE, status_code |-> 0] }

\* The values the caller may pass as `type`.
Types == {"post", "comment", "image"}

VARIABLES
    pc,         \* where the caller is: "new", "ready", "loop", "comments",
                \* "done", "made", "failed"; "batch" and "returned" for a
                \* batch fetch called by itself
    headers,    \* self.headers['Authorization'], None before it is set
    type,       \* the `type` argument of the running call
    verbose,    \* the `verbose` argument of get_all_data
    data,       \* get_all_data's accumulator
    before,     \* get_all_data's cursor
    data_size,  \* get_all_data's data_size
    batch,      \* get_all_data's batch counter (used when verbose)
    table,      \* the DataFrame returned, NoTable while there is none
    raised,     \* the exception that reached the caller
    printed,    \* what was printed, in order
    requests,   \* every HTTP request issued, in order
    left_by,    \* how `while True` ended: "continue" while it has not
    token_response, \* the response to the token exchange, none before it
    frame,      \* the latest batch fetch, in progress (pc = "comments") or
                \* finished; NoFrame before the first
    batches,    \* one entry per finished call of get_data
    truncated,  \* TRUE once the accumulator holds more than the model stores
    verify_response, \* the response to the verification request, none
                \* while that request has not been issued
    raw_comments, \* the responses to the comment requests of a batch fetch
                \* called by itself, in order
    twin,       \* the same call of get_all_data with the other value of
                \* `verbose`, answered by the same responses; NoRun before
    \* src/main.py and src/chat.py
    model,      \* the global `model` of main.py: the number of the ChatBot
                \* instance it is bound to, NoModel for Python's None
    chat_history, \* the list the global `chat_history` of main.py is bound
                \* to: its (text, reply) pairs
    history_id, \* which list object that is: `chat_history = []` binds the
                \* global to a new one
    bots,       \* bots[i]: self.chat_history of ChatBot instance i, as the
                \* turns added to CHAT_TEMPLATE
    calls,      \* calls[i]: the (text, reply) of every generate_reply call
                \* that returned on instance i, in order
    handlers,   \* per worker thread of the server: where its request
                \* handler is and its locals
    served      \* the number of requests received

\* The state of the crawler and the state of the web application.
crawl_vars == << pc, headers, type, verbose, data, before, data_size, batch,
                 table, raised, printed, requests, left_by, token_response,
                 frame, batches, truncated, verify_response, raw_comments,
                 twin >>
web_vars == << model, chat_history, history_id, bots, calls, handlers,
               served >>

vars == << pc, headers, type, verbose, data, before, data_size, batch, table,
           raised, printed, requests, left_by, token_response, frame, batches,
           truncated, verify_response, raw_comments, twin, model,
           chat_history, history_id, bots, calls, handlers, served >>

(* ------------------------------ requests ------------------------------ *)
\* One logged request: the endpoint and the parameter that tells requests
\* to the same endpoint apart (the 'before' parameter, the post id, the
\* Authorization header).
Request(endpoint, arg) == [endpoint |-> endpoint, arg |-> arg]

\* `if before:` is false for None and for the empty string.
Truthy(b) == b # None /\ b # ""

\* params['before'] of a listing request: set only when before is truthy.
BeforeParam(b) == IF Truthy(b) THEN b ELSE None

Last(s) == s[Len(s)]

(* --------------------------- get_token -------------------------------- *)
\* A plausible slip: a response without access_token yields the token None
\* instead of raising.
get_token_lenient(res) ==
    IF ~res.ok
    THEN [raised |-> "RequestException", token |-> None, printed |-> << >>]
    ELSE IF "access_token" \in DOMAIN res.json
    THEN [raised |-> NoException, token |-> res.json.access_token,
          printed |-> << >>]
    ELSE [raised |-> NoException, token |-> None, printed |-> << >>]

\* The result of get_token on the token response res: the token, or the
\* exception raised when res.json() has no access_token.
get_token(res) ==
    IF ~res.ok
    THEN [raised |-> "RequestException", token |-> None, printed |-> << >>]
    ELSE IF "access_token" \in DOMAIN res.json
    THEN [raised |-> NoException, token |-> res.json.access_token,
          printed |-> << >>]
    ELSE [raised |-> "Invalid credentials", token |-> None,
          printed |-> << <<"token response", 0, 0>> >>]

(* ---------------------------- __init__ -------------------------------- *)
\* A plausible slip: a verification that does not answer 200 raises.
init_strict(token_res, verify_res) ==
    LET t == get_token(token_res)
        token_req == Request("api/v1/access_token", None)
    IN  IF t.raised # NoException
        THEN [raised |-> t.raised, headers |-> None, printed |-> t.printed,
              requests |-> << token_req >>]
        ELSE LET authorization == "bearer " \o t.token
                 verify_req == Request("api/v1/me", authorization)
             IN  [raised |-> IF ~verify_res.ok THEN "RequestException"
                             ELSE IF verify_res.status_code # 200
                             THEN "Invalid credentials"
                             ELSE NoException,
                  headers |-> authorization,
                  printed |-> IF verify_res.ok /\ verify_res.status_code = 200
                              THEN << <<"Success authenticated", 0, 0>> >>
                              ELSE << >>,
                  requests |-> << token_req, verify_req >>]

\* RedditLoader(path): the token exchange, then the verification request.
\* The result: the exception that leaves the constructor (if any), the
\* Authorization header stored, what was printed and the requests issued.
init(token_res, verify_res) ==
    LET t == get_token(token_res)
        token_req == Request("api/v1/access_token", None)
    IN  IF t.raised # NoException
        THEN [raised |-> t.raised, headers |-> None, printed |-> t.printed,
              requests |-> << token_req >>]
        ELSE LET authorization == "bearer " \o t.token
                 verify_req == Request("api/v1/me", authorization)
             IN  [raised |-> IF verify_res.ok THEN NoException
                             ELSE "RequestException",
                  headers |-> authorization,
                  printed |-> IF verify_res.ok /\ verify_res.status_code = 200
                              THEN << <<"Success authenticated", 0, 0>> >>
                              ELSE << >>,
                  requests |-> << token_req, verify_req >>]

(* ------------------------- the batch fetches -------------------------- *)
\* A batch fetch in progress or finished: the listing response it works on,
\* the index i of the next post of the listing, its local list `data`, the
\* requests it has issued, and its state: "running" (inside the loop over
\* the posts), "returned" (data is the value returned) or "raised" (an
\* exception left the function).
Frame(state, listing, i, rows, reqs) ==
    [state |-> state, listing |-> listing, i |-> i, data |-> rows,
     requests |-> reqs]

\* A plausible slip: a listing request that fails is followed by a new
\* token exchange.
get_single_batch_post_from_reddit_reauth(b, listing) ==
    LET req == Request("r/subreddit/sort_by", BeforeParam(b)) IN
    IF ~listing.ok
    THEN Frame("raised", listing, 1, << >>,
               << req, Request("api/v1/access_token", None) >>)
    ELSE Frame("returned", listing, Len(listing.children) + 1,
               [i \in 1..Len(listing.children) |->
                   << listing.children[i].name,
                      listing.children[i].title,
                      listing.children[i].selftext >>],
               << req >>)

\* get_single_batch_post_from_reddit(subreddit, sort_by, limit, before) on
\* the listing response `listing`.
get_single_batch_post_from_reddit(b, listing) ==
    LET req == Request("r/subreddit/sort_by", BeforeParam(b)) IN
    IF ~listing.ok
    THEN Frame("raised", listing, 1, << >>, << req >>)
    ELSE Frame("returned", listing, Len(listing.children) + 1,
               [i \in 1..Len(listing.children) |->
                   << listing.children[i].name,
                      listing.children[i].title,
                      listing.children[i].selftext >>],
               << req >>)

\* get_single_batch_post_comment_from_reddit(subreddit, sort_by, limit,
\* before) up to its loop over the posts: the request of the "top" listing.
get_single_batch_post_comment_from_reddit(b, listing) ==
    LET req == Request("r/subreddit/top", BeforeParam(b)) IN
    IF ~listing.ok
    THEN Frame("raised", listing, 1, << >>, << req >>)
    ELSE IF Len(listing.children) = 0
    THEN Frame("returned", listing, 1, << >>, << req >>)
    ELSE Frame("running", listing, 1, << >>, << req >>)

\* A plausible slip: only the first comment of a post is kept.
comment_rows_first(post, children) ==
    LET with_body == SelectSeq(children, LAMBDA c : "body" \in DOMAIN c) IN
    IF with_body = << >> THEN << >>
    ELSE << << post.name, post.title, with_body[1].body >> >>

\* The rows one post contributes: one per comment item that has a body.
comment_rows(post, children) ==
    LET with_body == SelectSeq(children, LAMBDA c : "body" \in DOMAIN c) IN
    [k \in 1..Len(with_body) |-> << post.name, post.title, with_body[k].body >>]

\* A plausible slip: the loop over the posts is left at the first post
\* without a comment that has a body.
comment_request_until_empty(f, res) ==
    LET post == f.listing.children[f.i]
        req == Request("comments/post_id", post.id)
    IN  IF ~res.ok
        THEN Frame("raised", f.listing, f.i, f.data, Append(f.requests, req))
        ELSE Frame(IF \/ f.i = Len(f.listing.children)
                      \/ comment_rows(post, res.children) = << >>
                   THEN "returned" ELSE "running",
                   f.listing, f.i + 1,
                   f.data \o comment_rows(post, res.children),
                   Append(f.requests, req))

\* One pass of `for post in raw_data['data']['children']` in the frame f:
\* the comment request of post f.i, answered by res.
comment_request(f, res) ==
    LET post == f.listing.children[f.i]
        req == Request("comments/post_id", post.id)
    IN  IF ~res.ok
        THEN Frame("raised", f.listing, f.i, f.data, Append(f.requests, req))
        ELSE Frame(IF f.i = Len(f.listing.children) THEN "returned"
                   ELSE "running",
                   f.listing, f.i + 1,
                   f.data \o comment_rows(post, res.children),
                   Append(f.requests, req))

\* A plausible slip: any type but 'post' selects the comment fetch.
select_get_data_else_comment(t) ==
    IF t = "post"
    THEN [raised |-> NoException,
          get_data |-> "get_single_batch_post_from_reddit"]
    ELSE [raised |-> NoException,
          get_data |-> "get_single_batch_post_comment_from_reddit"]

\* The choice of get_data at the top of get_all_data: the name of the
\* batch fetch `type` selects, or the exception raised.
select_get_data(t) ==
    IF t = "post"
    THEN [raised |-> NoException,
          get_data |-> "get_single_batch_post_from_reddit"]
    ELSE IF t = "comment"
    THEN [raised |-> NoException,
          get_data |-> "get_single_batch_post_comment_from_reddit"]
    ELSE [raised |-> "Invalid type", get_data |-> None]

\* get_data(subreddit, sort_by, 100, before) for the batch fetch selected.
get_data(t, b, listing) ==
    IF select_get_data(t).get_data = "get_single_batch_post_from_reddit"
    THEN get_single_batch_post_from_reddit(b, listing)
    ELSE get_single_batch_post_comment_from_reddit(b, listing)

(* --------------------------- make_dataframe --------------------------- *)
\* make_dataframe(type, data): the DataFrame, or the exception raised.
make_dataframe(t, d) ==
    IF t = "post"
    THEN [raised |-> NoException,
          table |-> << [columns |-> <<"name", "title", "text">>, rows |-> d] >>]
    ELSE IF t = "comment"
    THEN [raised |-> NoException,
          table |-> << [columns |-> <<"name", "title", "comment">>, rows |-> d] >>]
    ELSE [raised |-> "Invalid type", table |-> NoTable]

(* ------------------------ the loop of get_all_data -------------------- *)
\* A plausible slip: the rows the batch fetch had gathered are appended
\* even when it raised.
extend_partial(d, r) == d \o r.data

\* A plausible slip: the accumulator is reset when the batch fetch raises.
extend_reset(d, r) == IF r.state = "raised" THEN << >> ELSE d \o r.data

\* A plausible slip: `data = get_data(...) + data` puts the new rows first.
extend_prepend(d, r) == IF r.state = "raised" THEN d ELSE r.data \o d

\* `data += get_data(subreddit, sort_by, 100, before)` on the finished
\* frame r: when get_data raises, the statement does not assign.
extend(d, r) == IF r.state = "raised" THEN d ELSE d \o r.data

\* A plausible slip: the cursor is taken from the first record.
cursor_of_first(d) == d[1][1]

\* `before = data[-1][0]` for a non-empty accumulator.
cursor_of(d) == Last(d)[1]

\* A plausible slip: the size check never leaves the loop.
exhausted_never(d, ds) == FALSE

\* `if len(data) == data_size`
exhausted(d, ds) == Len(d) = ds

\* A plausible slip: the except branch goes on with the next pass.
except_continue == "continue"

\* `except Exception as e: print(e); break`
except_branch == "except"

\* A plausible slip: the size check is indented under `if verbose:`.
loop_body_verbose_check(d, b, ds, bt, vb, r) ==
    LET d1 == extend(d, r) IN
    IF r.state = "raised"
    THEN [data |-> d1, before |-> b, data_size |-> ds, batch |-> bt,
          printed |-> << <<"FetchError", 0, 0>> >>, exit |-> except_branch]
    ELSE IF d1 = << >>
    THEN [data |-> d1, before |-> b, data_size |-> ds, batch |-> bt,
          printed |-> << <<"IndexError", 0, 0>> >>, exit |-> except_branch]
    ELSE LET b1 == cursor_of(d1)
             bt1 == IF vb THEN bt + 1 ELSE bt
             pr == IF vb THEN << <<"Batch complete", bt1, Len(d1)>> >>
                   ELSE << >>
         IN  IF vb /\ exhausted(d1, ds)
             THEN [data |-> d1, before |-> b1, data_size |-> ds,
                   batch |-> bt1, printed |-> pr, exit |-> "break"]
             ELSE [data |-> d1, before |-> b1, data_size |-> Len(d1),
                   batch |-> bt1, printed |-> pr, exit |-> "continue"]

\* One pass through the body of `while True` with accumulator d, cursor b,
\* data_size ds, batch counter bt, verbose flag vb, on the finished frame r
\* of get_data: the new locals, what is printed, and how the pass ends:
\* "except" (the break of the except branch), "break" (the break of the
\* size check) or "continue" (the next pass).
loop_body(d, b, ds, bt, vb, r) ==
    LET d1 == extend(d, r) IN
    IF r.state = "raised"
    THEN \* get_data raised: print(e); break
         [data |-> d1, before |-> b, data_size |-> ds, batch |-> bt,
          printed |-> << <<"FetchError", 0, 0>> >>, exit |-> except_branch]
    ELSE IF d1 = << >>
    THEN \* data[-1] raises IndexError: print(e); break
         [data |-> d1, before |-> b, data_size |-> ds, batch |-> bt,
          printed |-> << <<"IndexError", 0, 0>> >>, exit |-> except_branch]
    ELSE LET b1 == cursor_of(d1)
             bt1 == IF vb THEN bt + 1 ELSE bt
             pr == IF vb THEN << <<"Batch complete", bt1, Len(d1)>> >>
                   ELSE << >>
         IN  IF exhausted(d1, ds)
             THEN [data |-> d1, before |-> b1, data_size |-> ds,
                   batch |-> bt1, printed |-> pr, exit |-> "break"]
             ELSE [data |-> d1, before |-> b1, data_size |-> Len(d1),
                   batch |-> bt1, printed |-> pr, exit |-> "continue"]

\* The entry of `batches` for one call of get_data with cursor b.
BatchEntry(b, r) ==
    [before |-> b, listing |-> r.listing, raised |-> r.state = "raised",
     data |-> r.data, requests |-> r.requests]

(* ------------------- a second run of get_all_data --------------------- *)
\* The locals of get_all_data(type, subreddit, sort_by, vb) when it enters
\* `while True`, with what it has printed and requested.
start(vb) ==
    [pc |-> "loop", verbose |-> vb, data |-> << >>, before |-> None,
     data_size |-> 0, batch |-> 0,
     printed |-> IF vb THEN << <<"Getting data...", 0, 0>> >> ELSE << >>,
     requests |-> << >>, frame |-> NoFrame, table |-> NoTable,
     left_by |-> "continue"]

\* The run c of get_all_data(t, ...) after the request that leaves its
\* batch fetch in frame f: inside the fetch when f is running, else after
\* the rest of the pass of `while True` and, when the loop is left, the
\* return of make_dataframe(t, data).
run_request(t, c, f) ==
    LET n == loop_body(c.data, c.before, c.data_size, c.batch, c.verbose, f)
        c1 == [c EXCEPT !.frame = << f >>,
                        !.requests = Append(@, Last(f.requests))]
    IN  IF f.state = "running"
        THEN [c1 EXCEPT !.pc = "comments"]
        ELSE [c1 EXCEPT !.data = n.data, !.before = n.before,
                        !.data_size = n.data_size, !.batch = n.batch,
                        !.printed = @ \o n.printed, !.left_by = n.exit,
                        !.pc = IF n.exit # "continue" THEN "done" ELSE "loop",
                        !.table = IF n.exit # "continue"
                                  THEN make_dataframe(t, n.data).table
                                  ELSE @]

\* The run c given the listing response that answers the caller's listing
\* request: it takes the response when it is at its own listing request.
run_fetch(t, c, listing) ==
    IF c.pc = "loop" THEN run_request(t, c, get_data(t, c.before, listing))
    ELSE c

\* The run c given the response that answers the caller's comment request.
run_fetch_comments(t, c, res) ==
    IF c.pc = "comments"
    THEN run_request(t, c, comment_request(c.frame[1], res))
    ELSE c

(* ------------------------ the web application ------------------------ *)
\* Python's None as the value of the global `model`.
NoModel == 0

\* The worker threads of the development server (app.run serves each
\* request in a thread of its own).
Workers == {"w1", "w2"}

\* The texts a client may post to /chat.
Texts == {"hi", "why"}

\* A handler that is not serving a request.
Idle == [pc |-> "idle", text |-> None, bot |-> NoModel, prompt |-> << >>,
         reply |-> << >>, list |-> 0]

\* The response of ChatBot instance i to `prompt`: the text generated is
\* the environment's; the model names it by the instance and the turn.
response(i, prompt) == << i, Len(prompt) + 1 >>

\* The module-level statements of main.py: chat_history = [] and
\* model = ChatBot(model_name), whose __init__ sets self.chat_history to
\* CHAT_TEMPLATE.
InitWeb ==
    /\ model = 1
    /\ chat_history = << >>
    /\ history_id = 1
    /\ bots = << << >> >>
    /\ calls = << << >> >>
    /\ handlers = [w \in Workers |-> Idle]
    /\ served = 0

(* ------------------------------- state -------------------------------- *)
Init ==
    /\ pc = "new"
    /\ headers = None
    /\ type = None
    /\ verbose = FALSE
    /\ data = << >>
    /\ before = None
    /\ data_size = 0
    /\ batch = 0
    /\ table = NoTable
    /\ raised = NoException
    /\ printed = << >>
    /\ requests = << >>
    /\ left_by = "continue"
    /\ token_response = NoResponse
    /\ frame = NoFrame
    /\ batches = << >>
    /\ truncated = FALSE
    /\ verify_response = NoResponse
    /\ raw_comments = << >>
    /\ twin = NoRun
    /\ InitWeb

\* loader = RedditLoader(path)
Construct(token_res, verify_res) ==
    LET r == init(token_res, verify_res) IN
    /\ pc = "new"
    /\ pc' = IF r.raised = NoException THEN "ready" ELSE "failed"
    /\ raised' = r.raised
    /\ headers' = r.headers
    /\ printed' = printed \o r.printed
    /\ requests' = requests \o r.requests
    /\ token_response' = << token_res >>
    /\ verify_response' = IF Len(r.requests) = 2 THEN << verify_res >>
                          ELSE NoResponse
    /\ UNCHANGED << type, verbose, data, before, data_size, batch, table,
                    left_by, frame, batches, truncated, twin,
                    raw_comments, web_vars >>

\* loader.get_all_data(type, subreddit, sort_by, verbose), up to the first
\* pass of the loop: the choice of get_data and the initial locals.
GetAllData(t, vb) ==
    /\ pc = "ready"
    /\ type' = t
    /\ verbose' = vb
    /\ IF select_get_data(t).raised = NoException
       THEN /\ pc' = "loop"
            /\ data' = << >>
            /\ before' = None
            /\ data_size' = 0
            /\ batch' = 0
            /\ printed' = IF vb THEN Append(printed, <<"Getting data...", 0, 0>>)
                          ELSE printed
            /\ twin' = << start(~vb) >>
            /\ UNCHANGED raised
       ELSE /\ pc' = "failed"
            /\ raised' = select_get_data(t).raised
            /\ UNCHANGED << data, before, data_size, batch, printed, twin >>
    /\ UNCHANGED << headers, table, requests, left_by, token_response, frame,
                    batches, truncated, verify_response, raw_comments,
                    web_vars >>

\* The last MaxData records of d.
Window(d) == IF Len(d) <= MaxData THEN d
             ELSE SubSeq(d, Len(d) - MaxData + 1, Len(d))

Min(x, y) == IF x <= y THEN x ELSE y

\* Whether the model can store the crawl in full after the request that
\* leaves the batch fetch in frame f.
Fits(f) ==
    /\ Len(requests) + 1 <= MaxRequests
    /\ f.state # "running" =>
          Len(loop_body(data, before, data_size, batch, verbose, f).data)
             <= MaxData

\* The step of get_all_data after one request of its batch fetch, which
\* leaves the fetch in frame f: inside the fetch when f is running, else
\* the rest of the pass of `while True` and, when the loop is left, the
\* return of make_dataframe(type, data).
\* store = FALSE is the step of a crawl too long for the model to store:
\* the code goes on as before, the model keeps the last MaxData records of
\* the accumulator (the loop reads its last record and compares lengths
\* only) and no longer records what is printed and requested.
Advance(f, store) ==
    LET n == loop_body(data, before, data_size, batch, verbose, f) IN
    /\ truncated' = ~store
    /\ frame' = << f >>
    /\ requests' = IF store THEN Append(requests, Last(f.requests)) ELSE << >>
    /\ IF f.state = "running"
       THEN /\ pc' = "comments"
            /\ batch' = IF store THEN batch ELSE 0
            /\ printed' = IF store THEN printed ELSE << >>
            /\ batches' = IF store THEN batches ELSE << >>
            /\ UNCHANGED << data, before, data_size, table, left_by >>
       ELSE /\ data' = IF store THEN n.data ELSE Window(n.data)
            /\ before' = n.before
            /\ data_size' = IF store THEN n.data_size
                            ELSE Min(n.data_size, MaxData)
            /\ batch' = IF store THEN n.batch ELSE 0
            /\ printed' = IF store THEN printed \o n.printed ELSE << >>
            /\ batches' = IF store THEN Append(batches, BatchEntry(before, f))
                          ELSE << >>
            /\ left_by' = n.exit
            /\ IF n.exit # "continue"
               THEN /\ pc' = "done"
                    /\ table' = make_dataframe(type, data').table
               ELSE /\ pc' = "loop"
                    /\ UNCHANGED table
    /\ UNCHANGED << headers, type, verbose, raised, token_response,
                    verify_response, web_vars >>

\* The call of get_data at the top of `while True`: its listing request,
\* answered by `listing`.
Fetch(listing) ==
    LET f == get_data(type, before, listing) IN
    /\ pc = "loop"
    /\ ~truncated
    /\ Fits(f)
    /\ Advance(f, TRUE)
    /\ UNCHANGED raw_comments
    /\ twin' = << run_fetch(type, twin[1], listing) >>

\* The comment request of the next post of the listing, answered by res.
FetchComments(res) ==
    LET f == comment_request(frame[1], res) IN
    /\ pc = "comments"
    /\ ~truncated
    /\ Fits(f)
    /\ Advance(f, TRUE)
    /\ UNCHANGED raw_comments
    /\ twin' = << run_fetch_comments(type, twin[1], res) >>

\* The same two steps in a crawl too long for the model to store; the
\* second run is followed no further.
FetchUnbounded(listing) ==
    LET f == get_data(type, before, listing) IN
    /\ pc = "loop"
    /\ truncated \/ ~Fits(f)
    /\ Advance(f, FALSE)
    /\ UNCHANGED raw_comments
    /\ twin' = NoRun

FetchCommentsUnbounded(res) ==
    LET f == comment_request(frame[1], res) IN
    /\ pc = "comments"
    /\ truncated \/ ~Fits(f)
    /\ Advance(f, FALSE)
    /\ UNCHANGED raw_comments
    /\ twin' = NoRun

\* RedditLoader.make_dataframe(type, data), called by itself (it is a
\* static method and needs no loader).
MakeDataframe(t, d) ==
    LET r == make_dataframe(t, d) IN
    /\ pc = "new"
    /\ type' = t
    /\ data' = d
    /\ table' = r.table
    /\ raised' = r.raised
    /\ pc' = IF r.raised = NoException THEN "made" ELSE "failed"
    /\ UNCHANGED << headers, verbose, before, data_size, batch, printed,
                    requests, left_by, token_response, frame, batches,
                    truncated, verify_response, raw_comments, twin,
                    web_vars >>

\* loader.get_single_batch_post_comment_from_reddit(subreddit, sort_by,
\* limit, b), called by itself on a constructed loader: its listing
\* request, answered by `listing`. An exception it raises reaches the
\* caller.
BatchFetch(b, listing) ==
    LET f == get_single_batch_post_comment_from_reddit(b, listing) IN
    /\ pc = "ready"
    /\ frame' = << f >>
    /\ raw_comments' = << >>
    /\ requests' = Append(requests, Last(f.requests))
    /\ pc' = CASE f.state = "running" -> "batch"
              [] f.state = "returned" -> "returned"
              [] OTHER -> "failed"
    /\ raised' = IF f.state = "raised" THEN "FetchError" ELSE raised
    /\ type' = "comment"
    /\ UNCHANGED << headers, verbose, data, before, data_size, batch, table,
                    printed, left_by, token_response, batches, truncated,
                    verify_response, twin, web_vars >>

\* The comment request of the next post of that batch fetch, answered by
\* res.
BatchComments(res) ==
    LET f == comment_request(frame[1], res) IN
    /\ pc = "batch"
    /\ frame' = << f >>
    /\ raw_comments' = Append(raw_comments, res)
    /\ requests' = Append(requests, Last(f.requests))
    /\ pc' = CASE f.state = "running" -> "batch"
              [] f.state = "returned" -> "returned"
              [] OTHER -> "failed"
    /\ raised' = IF f.state = "raised" THEN "FetchError" ELSE raised
    /\ UNCHANGED << headers, type, verbose, data, before, data_size, batch,
                    table, printed, left_by, token_response, batches,
                    truncated, verify_response, twin, web_vars >>

\* The rows a caller may hand to make_dataframe.
Rows == { << p.name, p.title, p.selftext >> : p \in Posts }

Next ==
    \/ \E token_res \in TokenResponses, verify_res \in VerifyResponses :
          Construct(token_res, verify_res)
    \/ \E t \in Types, vb \in BOOLEAN : GetAllData(t, vb)
    \/ \E listing \in ListingResponses : Fetch(listing)
    \/ \E res \in CommentResponses : FetchComments(res)
    \/ \E t \in Types, d \in SeqsUpTo(Rows, MaxPage) : MakeDataframe(t, d)

Spec == Init /\ [][Next]_vars

\* The crawl with no bound on the accumulator. The code is one synchronous
\* thread: a step that can be taken is taken.
NextUnbounded ==
    \/ Next
    \/ \E listing \in ListingResponses : FetchUnbounded(listing)
    \/ \E res \in CommentResponses : FetchCommentsUnbounded(res)

SpecUnbounded == Init /\ [][NextUnbounded]_vars /\ WF_vars(NextUnbounded)

\* A loader constructed with the token tok1 and verified.
InitBatch ==
    LET token_res == [ok |-> TRUE, json |-> [access_token |-> "tok1"]]
        verify_res == [ok |-> TRUE, status_code |-> 200]
        r == init(token_res, verify_res)
    IN  /\ pc = "ready"
        /\ headers = r.headers
        /\ type = None
        /\ verbose = FALSE
        /\ data = << >>
        /\ before = None
        /\ data_size = 0
        /\ batch = 0
        /\ table = NoTable
        /\ raised = r.raised
        /\ printed = r.printed
        /\ requests = r.requests
        /\ left_by = "continue"
        /\ token_response = << token_res >>
        /\ frame = NoFrame
        /\ batches = << >>
        /\ truncated = FALSE
        /\ verify_response = << verify_res >>
        /\ raw_comments = << >>
        /\ twin = NoRun
        /\ InitWeb

\* One batch fetch of comments called by itself on that loader, with any
\* cursor the caller may pass.
NextBatch ==
    \/ \E b \in {None, "t3_a"}, listing \in ListingResponses :
          BatchFetch(b, listing)
    \/ \E res \in BatchCommentResponses : BatchComments(res)

SpecBatch == InitBatch /\ [][NextBatch]_vars

(* ------------------- the handlers of the web application -------------- *)
\* chat(), lines 17-18: a POST /chat arrives on worker w; the handler reads
\* the text and evaluates `model.generate_reply`, which raises
\* AttributeError when `model` is None (the request then fails).
Chat(w, text) ==
    /\ handlers[w].pc = "idle"
    /\ served < MaxServed
    /\ served' = served + 1
    /\ handlers' = [handlers EXCEPT ![w] =
          IF model = NoModel THEN Idle
          ELSE [Idle EXCEPT !.pc = "generate_reply", !.text = text,
                            !.bot = model]]
    /\ UNCHANGED << model, chat_history, history_id, bots, calls >>
    /\ UNCHANGED crawl_vars

\* generate_reply, line 38: the prompt is built from self.chat_history.
BuildPrompt(w) ==
    /\ handlers[w].pc = "generate_reply"
    /\ handlers' = [handlers EXCEPT ![w].pc = "pipeline",
                                    ![w].prompt = bots[handlers[w].bot]]
    /\ UNCHANGED << model, chat_history, history_id, bots, calls, served >>
    /\ UNCHANGED crawl_vars

\* generate_reply, lines 39-45: the pipeline answers, self.chat_history
\* becomes prompt + response and the response is returned.
Respond(w) ==
    LET h == handlers[w]
        r == response(h.bot, h.prompt)
    IN  /\ h.pc = "pipeline"
        /\ bots' = [bots EXCEPT ![h.bot] = Append(h.prompt, << h.text, r >>)]
        /\ calls' = [calls EXCEPT ![h.bot] = Append(@, << h.text, r >>)]
        /\ handlers' = [handlers EXCEPT ![w].pc = "load_history",
                                        ![w].reply = r]
        /\ UNCHANGED << model, chat_history, history_id, served >>
        /\ UNCHANGED crawl_vars

\* chat(), line 20: `chat_history.append` looks up the list the global is
\* bound to.
LoadHistory(w) ==
    /\ handlers[w].pc = "load_history"
    /\ handlers' = [handlers EXCEPT ![w].pc = "append",
                                    ![w].list = history_id]
    /\ UNCHANGED << model, chat_history, history_id, bots, calls, served >>
    /\ UNCHANGED crawl_vars

\* chat(), lines 20-21: the pair is appended to the list looked up, which
\* is the list of the global unless the global was bound to a new list in
\* between; then the redirect.
AppendPair(w) ==
    LET h == handlers[w] IN
    /\ h.pc = "append"
    /\ chat_history' = IF h.list = history_id
                       THEN Append(chat_history, << h.text, h.reply >>)
                       ELSE chat_history
    /\ handlers' = [handlers EXCEPT ![w] = Idle]
    /\ UNCHANGED << model, history_id, bots, calls, served >>
    /\ UNCHANGED crawl_vars

\* restart_chat(), line 27: a GET /restart arrives on worker w; model = None.
RestartChat(w) ==
    /\ handlers[w].pc = "idle"
    /\ served < MaxServed
    /\ served' = served + 1
    /\ model' = NoModel
    /\ handlers' = [handlers EXCEPT ![w].pc = "new_model"]
    /\ UNCHANGED << chat_history, history_id, bots, calls >>
    /\ UNCHANGED crawl_vars

\* restart_chat(), line 28: model = ChatBot(model_name).
NewModel(w) ==
    /\ handlers[w].pc = "new_model"
    /\ bots' = Append(bots, << >>)
    /\ calls' = Append(calls, << >>)
    /\ model' = Len(bots) + 1
    /\ handlers' = [handlers EXCEPT ![w].pc = "clear_history"]
    /\ UNCHANGED << chat_history, history_id, served >>
    /\ UNCHANGED crawl_vars

\* restart_chat(), lines 30-31: chat_history = [], then the redirect.
ClearHistory(w) ==
    /\ handlers[w].pc = "clear_history"
    /\ chat_history' = << >>
    /\ history_id' = history_id + 1
    /\ handlers' = [handlers EXCEPT ![w] = Idle]
    /\ UNCHANGED << model, bots, calls, served >>
    /\ UNCHANGED crawl_vars

NextWeb ==
    \/ \E w \in Workers, text \in Texts : Chat(w, text)
    \/ \E w \in Workers : BuildPrompt(w)
    \/ \E w \in Workers : Respond(w)
    \/ \E w \in Workers : LoadHistory(w)
    \/ \E w \in Workers : AppendPair(w)
    \/ \E w \in Workers : RestartChat(w)
    \/ \E w \in Workers : NewModel(w)
    \/ \E w \in Workers : ClearHistory(w)

\* The web application under any interleaving of its handlers.
SpecWeb == Init /\ [][NextWeb]_vars

(* ======================== properties of the crawl ===================== *)
ListingEndpoints == {"r/subreddit/sort_by", "r/subreddit/top"}

\* The listing requests of the crawl, in order: one per call of get_data.
ListingRequests ==
    SelectSeq(requests, LAMBDA q : q.endpoint \in ListingEndpoints)

\* The rows returned by the first k batch fetches, in order.
RECURSIVE Flatten(_, _)
Flatten(bs, k) == IF k = 0 THEN << >> ELSE Flatten(bs, k - 1) \o bs[k].data

\* The sum of the sizes of the first k pages.
RECURSIVE SumSizes(_, _)
SumSizes(bs, k) == IF k = 0 THEN 0 ELSE SumSizes(bs, k - 1) + Len(bs[k].data)

\* Whether batch fetch i ended the pages: it raised or returned no row.
Ends(bs, i) == bs[i].raised \/ bs[i].data = << >>

\* The index of the first empty page or error response (Len(bs) + 1 when
\* there is none).
StopIndex(bs) ==
    IF \E i \in 1..Len(bs) : Ends(bs, i)
    THEN CHOOSE i \in 1..Len(bs) :
            Ends(bs, i) /\ \A j \in 1..(i - 1) : ~Ends(bs, j)
    ELSE Len(bs) + 1

\* The column names of the table of a valid type.
Columns(t) == IF t = "post" THEN <<"name", "title", "text">>
              ELSE <<"name", "title", "comment">>

\* C1: when get_all_data has returned, in post and in comment mode, the
\* rows of the result are the rows of the pages returned before the first
\* empty page or error response, so their number is the sum of the sizes of
\* those pages; no row of the error response (the rows its fetch had
\* gathered before it failed) and no later response is in the result.
C1_AccumulatedSize ==
    pc = "done" =>
        LET k == StopIndex(batches) IN
        /\ k = Len(batches)
        /\ data = Flatten(batches, k - 1)
        /\ Len(data) = SumSizes(batches, k - 1)
        /\ table = << [columns |-> Columns(type), rows |-> data] >>

\* A comment crawl that returned after a non-empty batch and a batch whose
\* fetch failed after it had gathered rows.
C1_Witness ==
    /\ pc = "done"
    /\ type = "comment"
    /\ Len(batches) = 2
    /\ batches[1].data # << >>
    /\ batches[2].raised
    /\ batches[2].data # << >>

\* C2: the first fetch of a crawl is issued with no cursor, and the cursor
\* of fetch i+1 is element 0 (the post name) of the last record appended by
\* fetch i; in comment mode that is the name of a post of the listing of
\* fetch i, the parent of the last appended comment.
C2_CursorChain ==
    \A i \in 1..Len(ListingRequests) :
        IF i = 1
        THEN ListingRequests[i].arg = None
        ELSE /\ i - 1 <= Len(batches)
             /\ ~batches[i - 1].raised
             /\ batches[i - 1].data # << >>
             /\ ListingRequests[i].arg = Last(batches[i - 1].data)[1]
             /\ \E j \in 1..Len(batches[i - 1].listing.children) :
                   LET post == batches[i - 1].listing.children[j] IN
                   /\ post.name = ListingRequests[i].arg
                   /\ post.title = Last(batches[i - 1].data)[2]

\* A comment crawl whose second fetch carries the name of the first post of
\* the first listing, because the last post of that listing had no comment
\* with a body.
C2_Witness ==
    /\ type = "comment"
    /\ Len(ListingRequests) >= 2
    /\ Len(batches) >= 1
    /\ Len(batches[1].listing.children) = 2
    /\ batches[1].listing.children[1].name = "t3_a"
    /\ batches[1].listing.children[2].name = "t3_b"
    /\ ListingRequests[2].arg = "t3_a"

\* The names of the posts of the listing of batch fetch i.
PageNames(bs, i) ==
    { bs[i].listing.children[j].name :
        j \in 1..Len(bs[i].listing.children) }

\* No two listing requests of the crawl carry the same cursor.
NoCursorTwice ==
    \A i, j \in 1..Len(ListingRequests) :
        i < j => ListingRequests[i].arg # ListingRequests[j].arg

\* C3 as stated: for any upstream behaviour, no two fetches of a crawl are
\* issued with the same cursor value.
C3_Original == NoCursorTwice

\* C3, amended: no two fetches of a crawl are issued with the same cursor
\* value provided the upstream returns no post name on two different pages.
C3_NoCursorTwice ==
    (\A i, j \in 1..Len(batches) :
        i < j => PageNames(batches, i) \cap PageNames(batches, j) = {})
    => NoCursorTwice

\* A crawl of three fetches over pages that share no post.
C3_Witness ==
    /\ Len(ListingRequests) = 3
    /\ Len(batches) = 3
    /\ \A i, j \in 1..3 :
          i < j => PageNames(batches, i) \cap PageNames(batches, j) = {}
    /\ PageNames(batches, 1) # {}
    /\ PageNames(batches, 2) # {}

\* C4: when a batch fetch raises after earlier batches succeeded, that
\* step leaves the loop, raises nothing to the caller, leaves the
\* accumulator as it was, and returns the table of exactly those records.
C4_ErrorKeepsPartial ==
    [][ ( /\ pc \in {"loop", "comments"}
          /\ frame' # NoFrame
          /\ frame'[1].state = "raised" )
        => ( /\ pc' = "done"
             /\ raised' = NoException
             /\ data' = data
             /\ data' = Flatten(batches, Len(batches))
             /\ table' = << [columns |-> Columns(type), rows |-> data] >> )
      ]_vars

\* A post crawl that returned three records after its third fetch raised.
C4_Witness ==
    /\ pc = "done"
    /\ type = "post"
    /\ Len(batches) = 3
    /\ batches[3].raised
    /\ Len(table[1].rows) = 3

\* C5: a batch fetch that returns no new record is the last fetch of the
\* crawl, and a crawl that returned without a failed fetch has issued one
\* fetch per non-empty page plus one.
C5_EmptyPageStops ==
    /\ \A i \in 1..Len(batches) :
          (~batches[i].raised /\ batches[i].data = << >>) =>
             /\ i = Len(batches)
             /\ pc = "done"
             /\ Len(ListingRequests) = i
    /\ (pc = "done" /\ \A i \in 1..Len(batches) : ~batches[i].raised) =>
          /\ Len(batches) =
                Cardinality({ i \in 1..Len(batches) : batches[i].data # << >> }) + 1
          /\ Len(ListingRequests) = Len(batches)

\* A post crawl of one page of two posts and an empty page: two records,
\* two fetches.
C5_Witness ==
    /\ pc = "done"
    /\ type = "post"
    /\ Len(batches) = 2
    /\ Len(batches[1].data) = 2
    /\ ~batches[2].raised
    /\ batches[2].data = << >>
    /\ Len(table[1].rows) = 2
    /\ Len(ListingRequests) = 2

\* Whether an exception was printed by the except branch of the loop.
ErrorPrinted ==
    \E k \in 1..Len(printed) : printed[k][1] \in {"FetchError", "IndexError"}

\* C6 as stated: the loop is left through its except branch, with an error
\* printed, only when a batch fetch itself failed; a batch fetch that
\* returns successfully with no record, at any pass including the first,
\* ends the crawl through the size check with no error printed.
C6_Original ==
    /\ (left_by = "except" \/ ErrorPrinted) =>
          (frame # NoFrame /\ frame[1].state = "raised")
    /\ (frame # NoFrame /\ frame[1].state = "returned"
           /\ frame[1].data = << >>) =>
          (pc = "done" /\ left_by = "break" /\ ~ErrorPrinted)

\* C7 as stated: for every upstream behaviour, a crawl that has entered the
\* loop eventually returns.
C7_Original == (pc = "loop") ~> (pc = "done")

\* C7, amended: a step of the loop raises nothing to the caller; the loop is
\* left, and a table returned, by the step in which a batch fetch raises or
\* returns no record, and it goes on to the next fetch after a batch fetch
\* that returned records.
C7_ReturnsOnEmptyOrError ==
    [][ (pc = "loop" \/ pc = "comments") =>
          ( /\ raised' = NoException
            /\ pc' \in {"loop", "comments", "done"}
            /\ frame' # NoFrame
            /\ pc' = "done" =>
                  (table' # NoTable /\ table'[1].columns = Columns(type))
            /\ frame'[1].state = "raised" => pc' = "done"
            /\ (frame'[1].state = "returned" /\ frame'[1].data = << >>) =>
                  pc' = "done"
            /\ (frame'[1].state = "returned" /\ frame'[1].data # << >>) =>
                  pc' = "loop"
            /\ frame'[1].state = "running" => pc' = "comments" )
      ]_vars

\* A crawl longer than the model stores that returned when a fetch raised.
C7_Witness ==
    /\ pc = "done"
    /\ truncated
    /\ frame # NoFrame
    /\ frame[1].state = "raised"
    /\ table # NoTable
    /\ Len(table[1].rows) = MaxData

\* The requests of the crawl: all but those of the constructor.
CrawlRequests ==
    SelectSeq(requests, LAMBDA q :
        q.endpoint \notin {"api/v1/access_token", "api/v1/me"})

\* C8: with a type outside {post, comment}, get_all_data and make_dataframe
\* fail with the invalid-type exception, which reaches the caller; no fetch
\* is issued and no table is produced.
C8_InvalidType ==
    type \notin {None, "post", "comment"} =>
        /\ pc = "failed"
        /\ raised = "Invalid type"
        /\ table = NoTable
        /\ CrawlRequests = << >>
        /\ frame = NoFrame
        /\ batches = << >>

\* get_all_data was called on a loader with an invalid type.
C8_Witness ==
    /\ type = "image"
    /\ headers # None
    /\ pc = "failed"

\* C9: when the token-exchange response has no access_token, the
\* constructor fails with the invalid-credentials exception; the token
\* exchange is the only request ever issued (no verification, no listing
\* request) and no crawl starts.
C9_NoTokenNoRequest ==
    ( /\ token_response # NoResponse
      /\ token_response[1].ok
      /\ "access_token" \notin DOMAIN token_response[1].json )
    => /\ pc = "failed"
       /\ raised = "Invalid credentials"
       /\ requests = << Request("api/v1/access_token", None) >>
       /\ headers = None
       /\ frame = NoFrame
       /\ batches = << >>
       /\ table = NoTable

\* The token exchange was answered without an access_token.
C9_Witness ==
    /\ token_response # NoResponse
    /\ token_response[1].ok
    /\ "access_token" \notin DOMAIN token_response[1].json
    /\ pc = "failed"

\* The requests of the first k batch fetches, in order.
RECURSIVE FlattenRequests(_, _)
FlattenRequests(bs, k) ==
    IF k = 0 THEN << >> ELSE FlattenRequests(bs, k - 1) \o bs[k].requests

\* C10: in comment mode, a batch fetch that ends without an error on a
\* listing of N posts has issued, after its listing request, exactly N
\* requests, one per post in listing order, whatever number of comments
\* each post returned; these are the requests the loader issued.
C10_FanOut ==
    type = "comment" =>
        /\ \A i \in 1..Len(batches) :
              ~batches[i].raised =>
                 LET posts == batches[i].listing.children IN
                 /\ Len(batches[i].requests) = Len(posts) + 1
                 /\ batches[i].requests[1].endpoint = "r/subreddit/top"
                 /\ \A j \in 1..Len(posts) :
                       batches[i].requests[j + 1] =
                          Request("comments/post_id", posts[j].id)
        /\ CrawlRequests =
              FlattenRequests(batches, Len(batches))
                 \o (IF pc = "comments" THEN frame[1].requests ELSE << >>)

\* An error-free comment batch on two posts, the first with two comments
\* that have a body, the second with none: three requests.
C10_Witness ==
    /\ type = "comment"
    /\ Len(batches) >= 1
    /\ ~batches[1].raised
    /\ Len(batches[1].listing.children) = 2
    /\ batches[1].listing.children[1].name # batches[1].listing.children[2].name
    /\ Len(batches[1].data) = 2
    /\ \A k \in 1..2 :
          batches[1].data[k][1] = batches[1].listing.children[1].name
    /\ Len(batches[1].requests) = 3

(* ---------------------------------------------------------------------- *)
\* The requests of a run that are listing requests.
ListingRequestsOf(reqs) ==
    SelectSeq(reqs, LAMBDA q : q.endpoint \in ListingEndpoints)

\* C11: two runs of get_all_data that differ only in `verbose` and receive
\* the same upstream responses are at the same place after every request:
\* they have issued the same requests with the same cursors, hold the same
\* accumulator, cursor and data_size, have left the loop the same way and
\* at the same request, and have returned the same table.
C11_VerboseIndependent ==
    (pc \in {"loop", "comments", "done"} /\ ~truncated) =>
        /\ twin # NoRun
        /\ twin[1].verbose = ~verbose
        /\ twin[1].pc = pc
        /\ twin[1].requests = CrawlRequests
        /\ ListingRequestsOf(twin[1].requests) = ListingRequests
        /\ twin[1].data = data
        /\ twin[1].before = before
        /\ twin[1].data_size = data_size
        /\ twin[1].left_by = left_by
        /\ twin[1].table = table

\* A verbose crawl of two non-empty pages has returned; the silent run
\* printed nothing.
C11_Witness ==
    /\ pc = "done"
    /\ verbose
    /\ left_by = "break"
    /\ Len(batches) = 3
    /\ Len(data) >= 2
    /\ twin[1].printed = << >>
    /\ twin[1].batch = 0
    /\ batch = 3

\* Whether s is a prefix of t.
IsPrefix(s, t) == Len(s) <= Len(t) /\ SubSeq(t, 1, Len(s)) = s

\* C12: the accumulator of a crawl starts empty and is append-only: over
\* every step of the crawl the accumulator before the step is a prefix of
\* the accumulator after it, its size never decreases, and what a finished
\* batch fetch adds is its rows, in the order it returned them, after the
\* records already held.
C12_AppendOnly ==
    [][ /\ (pc = "ready" /\ pc' = "loop") => data' = << >>
        /\ (pc = "loop" \/ pc = "comments") =>
              /\ IsPrefix(data, data')
              /\ Len(data') >= Len(data)
              /\ frame'[1].state = "returned" =>
                    /\ data' = data \o frame'[1].data
                    /\ \A k \in 1..Len(frame'[1].data) :
                          data'[Len(data) + k] = frame'[1].data[k]
              /\ frame'[1].state # "returned" => data' = data ]_vars

\* A third batch has been appended after two non-empty ones, and the
\* records of the first batch still come first.
C12_Witness ==
    /\ Len(batches) >= 3
    /\ \A i \in 1..3 : ~batches[i].raised /\ batches[i].data # << >>
    /\ batches[1].data # batches[3].data
    /\ IsPrefix(batches[1].data \o batches[2].data, data)
    /\ Len(data) >= 3

\* The requests among reqs sent to the given endpoint.
RequestsTo(endpoint, reqs) ==
    SelectSeq(reqs, LAMBDA q : q.endpoint = endpoint)

\* C13: when the token exchange succeeds, the constructor issues exactly
\* one verification request, carrying the bearer header, and returns a
\* loader whatever status that request answers (200 or not); the header
\* stored is "bearer " and the token in both cases.
C13_VerificationAdvisory ==
    [][ ( /\ token_response' # NoResponse
          /\ token_response'[1].ok
          /\ "access_token" \in DOMAIN token_response'[1].json ) =>
            /\ headers' = "bearer " \o token_response'[1].json.access_token
            /\ RequestsTo("api/v1/me", requests')
                  = << Request("api/v1/me", headers') >>
            /\ verify_response' # NoResponse
            /\ (pc = "new" /\ verify_response'[1].ok) =>
                  /\ pc' = "ready"
                  /\ raised' = NoException
                  /\ Len(requests') = 2 ]_vars

\* A loader was constructed although the verification answered 401.
C13_Witness ==
    /\ pc = "ready"
    /\ verify_response = << [ok |-> TRUE, status_code |-> 401] >>
    /\ token_response = << [ok |-> TRUE, json |-> [access_token |-> "tok1"]] >>
    /\ headers = "bearer tok1"
    /\ raised = NoException

\* C14: the token exchange happens exactly once per loader, as the first
\* request of its constructor; no step of a batch fetch or of the crawl,
\* whatever the upstream answers (an error response such as 401 included),
\* issues another one or changes the Authorization header.
C14_TokenOnce ==
    [][ /\ token_response' # NoResponse =>
              /\ RequestsTo("api/v1/access_token", requests')
                    = << Request("api/v1/access_token", None) >>
              /\ requests'[1].endpoint = "api/v1/access_token"
        /\ (pc = "ready" \/ pc = "loop" \/ pc = "comments") =>
              /\ headers' = headers
              /\ token_response' = token_response
              /\ RequestsTo("api/v1/access_token", requests')
                    = RequestsTo("api/v1/access_token", requests) ]_vars

\* A crawl has ended on a failed listing request after a page of records:
\* the header is still the one of the constructor.
C14_Witness ==
    /\ pc = "done"
    /\ left_by = "except"
    /\ Len(batches) = 2
    /\ batches[2].raised
    /\ ~batches[2].listing.ok
    /\ Len(data) >= 1
    /\ headers = "bearer tok2"
    /\ Len(RequestsTo("api/v1/access_token", requests)) = 1

\* The bodies of the first k items of a comment tree, in order; an item
\* without a body gives none.
RECURSIVE BodiesOf(_, _)
BodiesOf(items, k) ==
    IF k = 0 THEN << >>
    ELSE BodiesOf(items, k - 1) \o
         (IF "body" \in DOMAIN items[k] THEN << items[k].body >> ELSE << >>)

\* The records of the first n posts of a page given the responses to their
\* comment requests: post by post, and within a post comment by comment.
RECURSIVE RecordsOf(_, _, _)
RecordsOf(posts, responses, n) ==
    IF n = 0 THEN << >>
    ELSE LET bodies == BodiesOf(responses[n].children,
                                Len(responses[n].children))
         IN  RecordsOf(posts, responses, n - 1) \o
             [k \in 1..Len(bodies) |->
                 << posts[n].name, posts[n].title, bodies[k] >>]

\* The number of items with a body in the first n responses.
RECURSIVE BodyCount(_, _)
BodyCount(responses, n) ==
    IF n = 0 THEN 0
    ELSE BodyCount(responses, n - 1) +
         Cardinality({k \in 1..Len(responses[n].children) :
                         "body" \in DOMAIN responses[n].children[k]})

\* C16: a comment batch fetch that returns has asked for the comments of
\* every post of the page, and its output holds exactly one record (parent
\* name, parent title, body) per comment item that has a body, in post
\* order and then in comment order, and none for an item without a body;
\* the number of records is the number of items with a body over all the
\* posts of the page.
C16_OneRecordPerBody ==
    pc = "returned" =>
        LET posts == frame[1].listing.children IN
        /\ Len(raw_comments) = Len(posts)
        /\ frame[1].data = RecordsOf(posts, raw_comments, Len(posts))
        /\ Len(frame[1].data) = BodyCount(raw_comments, Len(posts))

\* A page of two posts returned: the first post has two comments that
\* differ, the second a placeholder and one comment.
C16_Witness ==
    /\ pc = "returned"
    /\ Len(frame[1].listing.children) = 2
    /\ frame[1].listing.children[1] # frame[1].listing.children[2]
    /\ Len(raw_comments) = 2
    /\ Len(raw_comments[1].children) = 2
    /\ raw_comments[1].children[1] = [kind |-> "t1", body |-> "c2"]
    /\ raw_comments[1].children[2] = [kind |-> "t1", body |-> "c1"]
    /\ raw_comments[2].children = << [kind |-> "more"], [kind |-> "t1", body |-> "c1"] >>
    /\ Len(frame[1].data) = 3

\* C17: a batch is appended as a whole or not at all: while a batch fetch
\* is still asking for comments, and when any of its requests fails (the
\* listing request, or the comment request of any post, also after earlier
\* posts gave records), the accumulator, the cursor and data_size are left
\* as they were, and the table returned holds none of that batch's
\* records.
C17_BatchAtomic ==
    [][ (pc = "loop" \/ pc = "comments") =>
          /\ frame'[1].state # "returned" =>
                /\ data' = data
                /\ before' = before
                /\ data_size' = data_size
          /\ frame'[1].state = "raised" =>
                /\ table' # NoTable
                /\ table'[1].rows = data
                /\ batches' = Append(batches, BatchEntry(before, frame'[1]))
          /\ frame'[1].state = "returned" =>
                data' = data \o frame'[1].data ]_vars

\* The comment request of the second post of the second page failed after
\* the first post of that page had given a record: the accumulator and the
\* cursor are those left by the first page.
C17_Witness ==
    /\ pc = "done"
    /\ type = "comment"
    /\ Len(batches) = 2
    /\ batches[2].raised
    /\ batches[2].listing.ok
    /\ batches[2].data # << >>
    /\ Len(batches[2].requests) = 3
    /\ data = batches[1].data
    /\ data # << >>
    /\ before = Last(batches[1].data)[1]
    /\ before # batches[2].data[1][1]
    /\ table[1].rows = batches[1].data

\* C18: in comment mode a batch fetch that returns no record is the last
\* of the crawl, also when its listing had posts (every comment item of
\* which lacked a body): the comments of each of its posts were asked for,
\* then the crawl returned, and no listing request or any other request
\* follows, so the later pages of the listing are never requested.
C18_ZeroCommentBatchStops ==
    type = "comment" =>
        \A i \in 1..Len(batches) :
            (~batches[i].raised /\ batches[i].data = << >>) =>
                /\ i = Len(batches)
                /\ pc = "done"
                /\ table # NoTable
                /\ Len(batches[i].requests)
                      = 1 + Len(batches[i].listing.children)
                /\ Len(ListingRequests) = i
                /\ CrawlRequests = FlattenRequests(batches, i)
                /\ Last(requests) = Last(batches[i].requests)

\* After a page that gave a record, a page of two posts whose comment
\* trees hold no body ended the crawl through the size check.
C18_Witness ==
    /\ pc = "done"
    /\ type = "comment"
    /\ left_by = "break"
    /\ Len(batches) = 2
    /\ batches[1].data # << >>
    /\ Len(batches[2].listing.children) = 2
    /\ ~batches[2].raised
    /\ batches[2].data = << >>
    /\ Len(batches[2].requests) = 3
    /\ Len(ListingRequests) = 2

(* =================== properties of the web application ================ *)
\* No request is in flight.
Quiescent == \A w \in Workers : handlers[w].pc = "idle"

\* C19: whenever no request is in flight, the global chat_history holds
\* exactly the (text, reply) pairs of the generate_reply calls made on the
\* current ChatBot instance, in order (none right after a /restart), and
\* every reply it holds was produced by the current instance.
C19_Original ==
    Quiescent =>
        /\ model # NoModel
        /\ chat_history = calls[model]
        /\ \A k \in 1..Len(chat_history) : chat_history[k][2][1] = model
====
